---- MODULE Spec2Model ----
(***************************************************************************)
(* A model of version-guard (src/src/main.ts): a pull-request linter that  *)
(* fetches a PR's diff, runs regex-based validators over the changed       *)
(* files and posts one aggregated comment.                                 *)
(*                                                                         *)
(* Strings are TLA+ strings; a position is a 0-based offset as in          *)
(* JavaScript.  The regular expressions of the source are transcribed to   *)
(* syntax trees and run by a backtracking matcher that follows the         *)
(* ECMAScript matching order (greedy/lazy quantifiers, alternation left    *)
(* to right, captures, lookahead, the i and m flags).                      *)
(***************************************************************************)
EXTENDS Integers, Sequences, FiniteSets, TLC

VARIABLES
    pc,          \* where run(), or the validator under study, stands
    prDiff,      \* what the pulls.get call answers for this pull request
    parsedDiff,  \* parseDiff(diff): the changed files
    fileIdx,     \* analyzeCode: the index of the file the loop is at
    issues,      \* analyzeCode: the issues pushed so far
    ran,         \* history: the <<file index, validator>> pairs run so far
    events,      \* history: the comments posted and core.setFailed calls
    thrown,      \* the error run() caught, with the call that threw it
    blob,        \* the input of the validator under study
    result       \* what the validator under study returned

vars == <<pc, prDiff, parsedDiff, fileIdx, issues, ran, events, thrown,
          blob, result>>

(***************************************************************************)
(* Characters and strings                                                  *)
(***************************************************************************)
Ch(s, i) == SubSeq(s, i, i)

Lowers == "abcdefghijklmnopqrstuvwxyz"
Uppers == "ABCDEFGHIJKLMNOPQRSTUVWXYZ"
Digits == "0123456789"

CharsOf(s) == {Ch(s, i) : i \in 1..Len(s)}

LowerSet == CharsOf(Lowers)
UpperSet == CharsOf(Uppers)
DigitSet == CharsOf(Digits)
LetterSet == LowerSet \cup UpperSet
\* \w
WordSet == LetterSet \cup DigitSet \cup {"_"}
\* \s (the members that a diff text can hold)
SpaceSet == {" ", "\t", "\n", "\r", "\f"}
\* line terminators: what . excludes and what ^ under the m flag follows
LineTerminators == {"\n", "\r"}

ToUpper == [c \in LowerSet |-> Ch(Uppers, CHOOSE i \in 1..26 : Ch(Lowers, i) = c)]
ToLower == [c \in UpperSet |-> Ch(Lowers, CHOOSE i \in 1..26 : Ch(Uppers, i) = c)]

\* Canonicalize of the i flag, for one character
Canon(c) == IF c \in LowerSet THEN ToUpper[c] ELSE c

\* In(value): value is evaluated once, however often In uses it
Let(value, In(_)) == In(value)

\* the least k in lo..hi with P(k), or hi + 1 when there is none
FirstIndex(lo, hi, P(_)) ==
    IF hi < lo THEN hi + 1
    ELSE CHOOSE first \in lo..(hi + 1) :
            /\ first = hi + 1 \/ P(first)
            /\ \A earlier \in lo..(first - 1) : ~P(earlier)

\* String.prototype.indexOf(t, from): 0-based offset of t in s, or -1
IndexOf(s, t, from) ==
    LET last == Len(s) - Len(t)
        i == FirstIndex(from, last, LAMBDA k : SubSeq(s, k + 1, k + Len(t)) = t)
    IN  IF i > last THEN -1 ELSE i

\* String.prototype.includes
Includes(s, t) == IndexOf(s, t, 0) >= 0

\* String.prototype.endsWith
EndsWith(s, t) == Len(t) <= Len(s) /\ SubSeq(s, Len(s) - Len(t) + 1, Len(s)) = t

\* String.prototype.startsWith
StartsWith(s, t) == Len(t) <= Len(s) /\ SubSeq(s, 1, Len(t)) = t

RECURSIVE Split(_, _)
\* String.prototype.split(sep), sep one character
Split(s, sep) ==
    LET i == IndexOf(s, sep, 0)
    IN  IF i < 0 THEN <<s>>
        ELSE <<SubSeq(s, 1, i)>> \o Split(SubSeq(s, i + 2, Len(s)), sep)

RECURSIVE Join(_, _)
\* Array.prototype.join(sep)
Join(xs, sep) ==
    IF Len(xs) = 0 THEN ""
    ELSE IF Len(xs) = 1 THEN xs[1]
    ELSE xs[1] \o sep \o Join(Tail(xs), sep)

RECURSIVE Flatten(_)
\* the concatenation of a sequence of sequences
Flatten(xss) == IF Len(xss) = 0 THEN <<>> ELSE Head(xss) \o Flatten(Tail(xss))

(***************************************************************************)
(* Regular expressions: syntax trees                                       *)
(***************************************************************************)
RECURSIVE GroupsIn(_)
\* the capture groups inside a node (a quantifier resets them each round)
GroupsIn(x) ==
    CASE x.t = "grp" -> {x.i} \cup GroupsIn(x.x)
      [] x.t = "rep" -> x.gs
      [] x.t = "look" -> GroupsIn(x.x)
      [] x.t \in {"cat", "alt"} ->
            UNION {GroupsIn(x.xs[j]) : j \in 1..Len(x.xs)}
      [] OTHER -> {}

Lit(s) == [t |-> "lit", s |-> s]
Set(cs) == [t |-> "set", neg |-> FALSE, cs |-> cs]
NotSet(cs) == [t |-> "set", neg |-> TRUE, cs |-> cs]
Cat(xs) == [t |-> "cat", xs |-> xs]
Alt(xs) == [t |-> "alt", xs |-> xs]
\* a quantifier {min,max}, or {min,} when inf
Rep(x, min, max, inf, greedy) ==
    [t |-> "rep", x |-> x, min |-> min, max |-> max, inf |-> inf,
     greedy |-> greedy, gs |-> GroupsIn(x)]
Grp(i, x) == [t |-> "grp", i |-> i, x |-> x]
Look(neg, x) == [t |-> "look", neg |-> neg, x |-> x]
Bol == [t |-> "bol"]
Eol == [t |-> "eol"]

Star(x) == Rep(x, 0, 0, TRUE, TRUE)
Plus(x) == Rep(x, 1, 0, TRUE, TRUE)
Opt(x) == Rep(x, 0, 1, FALSE, TRUE)
LazyStar(x) == Rep(x, 0, 0, TRUE, FALSE)
LazyPlus(x) == Rep(x, 1, 0, TRUE, FALSE)
LazyOpt(x) == Rep(x, 0, 1, FALSE, FALSE)
\* .  \s  \S  \w  \d  [\s\S]
Dot == NotSet(LineTerminators)
WS == Set(SpaceSet)
Word == Set(WordSet)
Digit == Set(DigitSet)
AnyChar == NotSet({})

\* a regular expression: its tree, its number of capture groups, its flags
RegExp(node, ngroups, flags) ==
    [re |-> node, ng |-> ngroups,
     i |-> Includes(flags, "i"), m |-> Includes(flags, "m"),
     g |-> Includes(flags, "g")]

(***************************************************************************)
(* Regular expressions: the backtracking matcher                           *)
(***************************************************************************)
Fail == [ok |-> FALSE, pos |-> 0, caps |-> <<>>]

CharIn(c, h, icase) ==
    LET in == \/ c \in h.cs
              \/ icase /\ c \in LowerSet /\ ToUpper[c] \in h.cs
              \/ icase /\ c \in UpperSet /\ ToLower[c] \in h.cs
    IN  in # h.neg

LitAt(s, pos, t, icase) ==
    /\ pos + Len(t) <= Len(s)
    /\ IF icase
       THEN \A j \in 1..Len(t) : Canon(Ch(s, pos + j)) = Canon(Ch(t, j))
       ELSE SubSeq(s, pos + 1, pos + Len(t)) = t

\* the offset at which the run of characters of class x starting at pos ends
RunEnd(s, pos, x, icase) ==
    FirstIndex(pos, Len(s) - 1, LAMBDA j : ~CharIn(Ch(s, j + 1), x, icase))

RECURSIVE M(_, _, _, _, _)
\* Match the nodes of k, in order, against s from offset pos; k is the
\* continuation, so a failure further on backtracks into the choices made
\* here, in ECMAScript's order.  Yields the first success.
M(k, s, pos, caps, fl) ==
    IF Len(k) = 0 THEN [ok |-> TRUE, pos |-> pos, caps |-> caps]
    ELSE
    LET h == Head(k)
        rest == Tail(k)
        \* the match of a continuation k2 from offset to
        Go(k2, to, caps2) == M(k2, s, to, caps2, fl)
    IN  CASE h.t = "lit" ->
               IF LitAt(s, pos, h.s, fl.i)
               THEN Go(rest, pos + Len(h.s), caps) ELSE Fail
          [] h.t = "set" ->
               IF pos < Len(s) /\ CharIn(Ch(s, pos + 1), h, fl.i)
               THEN Go(rest, pos + 1, caps) ELSE Fail
          [] h.t = "cat" -> Go(h.xs \o rest, pos, caps)
          [] h.t = "alt" ->
               IF Len(h.xs) = 0 THEN Fail
               ELSE LET first == Go(<<Head(h.xs)>> \o rest, pos, caps)
                    IN  IF first.ok THEN first
                        ELSE Go(<<Alt(Tail(h.xs))>> \o rest, pos, caps)
          [] h.t = "rep" /\ h.x.t = "set" ->
               \* a quantified character class: the counts it can take are
               \* min..(the run's length, capped by max), tried from the
               \* greatest down when greedy and from the least up when lazy
               LET run == RunEnd(s, pos, h.x, fl.i) - pos
                   hi == IF h.inf \/ run < h.max THEN run ELSE h.max
                   \* the n-th count tried
                   count(n) == IF h.greedy THEN hi - n ELSE h.min + n
                   try == FirstIndex(0, hi - h.min,
                            LAMBDA j : Go(rest, pos + count(j), caps).ok)
               IN  IF try > hi - h.min THEN Fail
                   ELSE Go(rest, pos + count(try), caps)
          [] h.t = "rep" ->
               LET again == [h EXCEPT !.min = IF h.min > 0 THEN h.min - 1 ELSE 0,
                                      !.max = IF h.inf THEN 0 ELSE h.max - 1]
                   guard == IF h.min = 0
                            THEN <<[t |-> "chk", pos |-> pos]>> ELSE <<>>
                   cleared == [j \in DOMAIN caps |->
                                 IF j \in h.gs THEN <<>> ELSE caps[j]]
                   more == Go(<<h.x>> \o guard \o <<again>> \o rest, pos, cleared)
                   skip == Go(rest, pos, caps)
               IN  IF ~h.inf /\ h.max = 0 THEN skip
                   ELSE IF h.min > 0 THEN more
                   ELSE IF h.greedy
                        THEN (IF more.ok THEN more ELSE skip)
                        ELSE (IF skip.ok THEN skip ELSE more)
          [] h.t = "chk" ->
               \* an iteration of a satisfied quantifier must consume input
               IF pos = h.pos THEN Fail ELSE Go(rest, pos, caps)
          [] h.t = "grp" ->
               Go(<<h.x, [t |-> "close", i |-> h.i, from |-> pos]>> \o rest,
                  pos, caps)
          [] h.t = "close" ->
               Go(rest, pos, [caps EXCEPT ![h.i] = <<h.from, pos>>])
          [] h.t = "look" ->
               LET r == Go(<<h.x>>, pos, caps)
               IN  IF h.neg
                   THEN (IF r.ok THEN Fail ELSE Go(rest, pos, caps))
                   ELSE (IF r.ok THEN Go(rest, pos, r.caps) ELSE Fail)
          [] h.t = "bol" ->
               IF pos = 0 \/ (fl.m /\ Ch(s, pos) \in LineTerminators)
               THEN Go(rest, pos, caps) ELSE Fail
          [] h.t = "eol" ->
               IF pos = Len(s) \/ (fl.m /\ Ch(s, pos + 1) \in LineTerminators)
               THEN Go(rest, pos, caps) ELSE Fail

NoMatch == [ok |-> FALSE, start |-> 0, end |-> 0, caps |-> <<>>, text |-> ""]

\* the match of rx in s that starts at offset i, if there is one; an
\* undefined capture reads "" (the code only tests captures for truth)
MatchAt(rx, s, i) ==
    Let(M(<<rx.re>>, s, i, [j \in 1..rx.ng |-> <<>>], rx),
        LAMBDA r :
          IF r.ok
          THEN [ok |-> TRUE, start |-> i, end |-> r.pos,
                caps |-> [j \in 1..rx.ng |->
                            IF r.caps[j] = <<>> THEN ""
                            ELSE SubSeq(s, r.caps[j][1] + 1, r.caps[j][2])],
                text |-> SubSeq(s, i + 1, r.pos)]
          ELSE NoMatch)

\* RegExp.prototype.exec from lastIndex: the leftmost match at or after it
Exec(rx, s, lastIndex) ==
    Let(FirstIndex(lastIndex, Len(s), LAMBDA k : MatchAt(rx, s, k).ok),
        LAMBDA i : IF i > Len(s) THEN NoMatch ELSE MatchAt(rx, s, i))

\* RegExp.prototype.test, and a truthy String.prototype.match without g
Test(rx, s) == \E i \in 0..Len(s) : MatchAt(rx, s, i).ok

RECURSIVE MatchAllFrom(_, _, _)
MatchAllFrom(rx, s, lastIndex) ==
    Let(Exec(rx, s, lastIndex),
        LAMBDA r :
          IF ~r.ok THEN <<>>
          ELSE <<r>> \o MatchAllFrom(rx, s,
                          IF r.end = r.start THEN r.end + 1 ELSE r.end))

\* [...s.matchAll(rx)] and s.match(rx) of a g regex: every match, left to
\* right, each search resuming where the last match ended (one further
\* on after an empty match)
MatchAll(rx, s) == MatchAllFrom(rx, s, 0)

(***************************************************************************)
(* The package validators                                                  *)
(***************************************************************************)
\* the U+26A0 U+FE0F warning sign that opens every message
WarnSign == "(!) "
\* the grave accent U+0060 that quotes names in the messages
Tick == "'"
Quoted(x) == Tick \o x \o Tick

\* /"([^"]+)":\s*"([^"]+)"/g
packageRegex ==
    RegExp(Cat(<<Lit("\""), Grp(1, Plus(NotSet({"\""}))), Lit("\":"), Star(WS),
                 Lit("\""), Grp(2, Plus(NotSet({"\""}))), Lit("\"")>>), 2, "g")

NodeIssue(match) ==
    LET packageName == match.caps[1]
        version == match.caps[2]
    IN  IF StartsWith(version, "^") \/ StartsWith(version, "~") \/ version = "*"
        THEN <<WarnSign \o "Package " \o Quoted(packageName) \o
               " should use exact version instead of " \o Quoted(version) \o
               ". Use exact version pinning for reproducible builds.">>
        ELSE <<>>

validateNodePackage(content) ==
    Let(MatchAll(packageRegex, content),
        LAMBDA matches : Flatten([j \in 1..Len(matches) |-> NodeIssue(matches[j])]))

\* /^([^=><~\s]+)\s*((?:[<>=~]{1,2}|\^)?\s*[0-9][^;\s]*)?/gm
requirementRegex ==
    RegExp(Cat(<<Bol,
                 Grp(1, Plus(NotSet({"=", ">", "<", "~"} \cup SpaceSet))),
                 Star(WS),
                 Opt(Grp(2, Cat(<<Opt(Alt(<<Rep(Set({"<", ">", "=", "~"}),
                                                  1, 2, FALSE, TRUE),
                                              Lit("^")>>)),
                                  Star(WS), Digit,
                                  Star(NotSet({";"} \cup SpaceSet))>>)))>>),
           2, "gm")

PythonIssue(match) ==
    LET packageName == match.caps[1]
        version == match.caps[2]
    IN  IF \/ version = ""
           \/ Includes(version, "~=")
           \/ Includes(version, ">")
           \/ Includes(version, "<")
        THEN <<WarnSign \o "Python package " \o Quoted(packageName) \o
               " should use exact version (==) instead of " \o
               Quoted(IF version = "" THEN "unspecified" ELSE version) \o ".">>
        ELSE <<>>

validatePythonPackage(content) ==
    Let(MatchAll(requirementRegex, content),
        LAMBDA matches : Flatten([j \in 1..Len(matches) |-> PythonIssue(matches[j])]))

\* ['"]
QuoteChar == Set({"'", "\""})
\* [^'"]+
Unquoted == Plus(NotSet({"'", "\""}))

\* /gem\s+['"]([^'"]+)['"]\s*,\s*['"]([^'"]+)['"]/g
gemRegex ==
    RegExp(Cat(<<Lit("gem"), Plus(WS), QuoteChar, Grp(1, Unquoted), QuoteChar,
                 Star(WS), Lit(","), Star(WS),
                 QuoteChar, Grp(2, Unquoted), QuoteChar>>), 2, "g")

RubyIssue(match) ==
    LET gemName == match.caps[1]
        version == match.caps[2]
    IN  IF Includes(version, "~>") \/ Includes(version, ">") \/ Includes(version, "<")
        THEN <<WarnSign \o "Ruby gem " \o Quoted(gemName) \o
               " should use exact version instead of " \o Quoted(version) \o ".">>
        ELSE <<>>

validateRubyPackage(content) ==
    Let(MatchAll(gemRegex, content),
        LAMBDA matches : Flatten([j \in 1..Len(matches) |-> RubyIssue(matches[j])]))

\* /([^:]+):([^:]+):([^'\s]+)/g
gradleRegex ==
    RegExp(Cat(<<Grp(1, Plus(NotSet({":"}))), Lit(":"),
                 Grp(2, Plus(NotSet({":"}))), Lit(":"),
                 Grp(3, Plus(NotSet({"'"} \cup SpaceSet)))>>), 3, "g")

\* /<version>([^<]+)<\/version>/g
mavenRegex ==
    RegExp(Cat(<<Lit("<version>"), Grp(1, Plus(NotSet({"<"}))),
                 Lit("</version>")>>), 1, "g")

GradleIssue(match) ==
    LET group == match.caps[1]
        artifact == match.caps[2]
        version == match.caps[3]
    IN  IF \/ Includes(version, "+")
           \/ EndsWith(version, ".+")
           \/ Includes(version, "latest")
        THEN <<WarnSign \o "Gradle dependency " \o Quoted(group \o ":" \o artifact) \o
               " should use exact version instead of " \o Quoted(version) \o ".">>
        ELSE <<>>

MavenIssue(match) ==
    LET version == match.caps[1]
    IN  IF \/ Includes(version, "SNAPSHOT")
           \/ Includes(version, "RELEASE")
           \/ Includes(version, "LATEST")
        THEN <<WarnSign \o "Maven dependency should use exact version instead of " \o
               Quoted(version) \o ".">>
        ELSE <<>>

validateJavaPackage(content) ==
    Let(MatchAll(gradleRegex, content),
        LAMBDA gradleMatches :
          Flatten([j \in 1..Len(gradleMatches) |-> GradleIssue(gradleMatches[j])]))
    \o
    Let(MatchAll(mavenRegex, content),
        LAMBDA mavenMatches :
          Flatten([j \in 1..Len(mavenMatches) |-> MavenIssue(mavenMatches[j])]))

(***************************************************************************)
(* The container validators                                                *)
(***************************************************************************)
\* /^\d+$/
BareIntegerRe == RegExp(Cat(<<Bol, Plus(Digit), Eol>>), 0, "")
\* /^\d+\.\d+$/
MajorMinorRe ==
    RegExp(Cat(<<Bol, Plus(Digit), Lit("."), Plus(Digit), Eol>>), 0, "")

\* !tag || tag === 'latest' || /^\d+$/.test(tag) || /^\d+\.\d+$/.test(tag)
ImageTagFloating(tag) ==
    \/ tag = ""
    \/ tag = "latest"
    \/ Test(BareIntegerRe, tag)
    \/ Test(MajorMinorRe, tag)

\* /image:\s*([^:\s]+)(?::([^\s]+))?/g
k8sImageRegex ==
    RegExp(Cat(<<Lit("image:"), Star(WS),
                 Grp(1, Plus(NotSet({":"} \cup SpaceSet))),
                 Opt(Cat(<<Lit(":"), Grp(2, Plus(NotSet(SpaceSet)))>>))>>),
           2, "g")

KubernetesIssue(match) ==
    LET image == match.caps[1]
        tag == match.caps[2]
    IN  IF ImageTagFloating(tag)
        THEN <<WarnSign \o "Kubernetes container " \o Quoted(image) \o
               " should use specific version tag instead of " \o
               Quoted(IF tag = "" THEN "latest" ELSE tag) \o ".">>
        ELSE <<>>

validateKubernetesManifest(content) ==
    Let(MatchAll(k8sImageRegex, content),
        LAMBDA matches : Flatten([j \in 1..Len(matches) |-> KubernetesIssue(matches[j])]))

\* /image:\s*['"]?([^:\s'"]+)(?::([^\s'"]+))?['"]?/g
composeImageRegex ==
    RegExp(Cat(<<Lit("image:"), Star(WS), Opt(QuoteChar),
                 Grp(1, Plus(NotSet({":", "'", "\""} \cup SpaceSet))),
                 Opt(Cat(<<Lit(":"),
                           Grp(2, Plus(NotSet({"'", "\""} \cup SpaceSet)))>>)),
                 Opt(QuoteChar)>>), 2, "g")

ComposeIssue(match) ==
    LET image == match.caps[1]
        tag == match.caps[2]
    IN  IF ImageTagFloating(tag)
        THEN <<WarnSign \o "Docker Compose service " \o Quoted(image) \o
               " should use specific version tag instead of " \o
               Quoted(IF tag = "" THEN "latest" ELSE tag) \o ".">>
        ELSE <<>>

validateDockerCompose(content) ==
    Let(MatchAll(composeImageRegex, content),
        LAMBDA matches : Flatten([j \in 1..Len(matches) |-> ComposeIssue(matches[j])]))

(***************************************************************************)
(* validateDockerfile                                                      *)
(***************************************************************************)

\* /^\+/
LeadingPlusRe == RegExp(Cat(<<Bol, Lit("+")>>), 0, "")

\* line.replace(/^\+/, '')
StripPlus(line) ==
    Let(Exec(LeadingPlusRe, line, 0),
        LAMBDA r :
          IF r.ok
          THEN SubSeq(line, 1, r.start) \o SubSeq(line, r.end + 1, Len(line))
          ELSE line)

\* content.split('\n').map(line => line.replace(/^\+/, '')).join('\n')
CleanContent(content) ==
    Let(Split(content, "\n"),
        LAMBDA lines : Join([j \in 1..Len(lines) |-> StripPlus(lines[j])], "\n"))

\* /^FROM\s+[^\n]+/gm
FromLinesRe ==
    RegExp(Cat(<<Bol, Lit("FROM"), Plus(WS), Plus(NotSet({"\n"}))>>), 0, "gm")

\* /FROM\s+([^:\s]+)(?::([^\s]+))?/
FromImageRe ==
    RegExp(Cat(<<Lit("FROM"), Plus(WS),
                 Grp(1, Plus(NotSet({":"} \cup SpaceSet))),
                 Opt(Cat(<<Lit(":"), Grp(2, Plus(NotSet(SpaceSet)))>>))>>),
           2, "")

\* /^[a-zA-Z]+$/
AlphabeticRe == RegExp(Cat(<<Bol, Plus(Set(LetterSet)), Eol>>), 0, "")

DockerNoTagMsg(image) ==
    WarnSign \o "Docker image " \o Quoted(image) \o
    " has no version tag specified. Use specific version tags for reproducible builds."

DockerFloatingTagMsg(image, tag) ==
    WarnSign \o "Docker image " \o Quoted(image \o ":" \o tag) \o
    " uses non-specific tag. Use complete version numbers (e.g., '20.5.0-alpine3.18')."

\* the tag checks of one FROM line: no tag, or a floating one
DockerTagIssues(image, tag) ==
    IF tag = "" THEN <<DockerNoTagMsg(image)>>
    ELSE IF \/ tag = "latest"
            \/ tag = "stable"
            \/ tag = "rolling"
            \/ tag = "alpine"
            \/ Test(BareIntegerRe, tag)
            \/ Test(MajorMinorRe, tag)
            \/ Test(AlphabeticRe, tag)
         THEN <<DockerFloatingTagMsg(image, tag)>>
         ELSE <<>>

\* the body of the loop over fromLines: the warnings of one FROM line
DockerLineIssues(fromLine) ==
    Let(Exec(FromImageRe, fromLine, 0),
        LAMBDA match :
          IF ~match.ok THEN <<>>
          ELSE DockerTagIssues(match.caps[1], match.caps[2]))

validateDockerfile(content) ==
    Let(MatchAll(FromLinesRe, CleanContent(content)),
        LAMBDA fromLines :
          Flatten([j \in 1..Len(fromLines) |-> DockerLineIssues(fromLines[j].text)]))

(***************************************************************************)
(* validateGitHubActions                                                   *)
(***************************************************************************)
\* /uses:\s+([^@]+)@([^\s]+)/g
actionRegex ==
    RegExp(Cat(<<Lit("uses:"), Plus(WS), Grp(1, Plus(NotSet({"@"}))), Lit("@"),
                 Grp(2, Plus(NotSet(SpaceSet)))>>), 2, "g")

\* /^v\d+\.\d+\.\d+$/
ExactVersionRe ==
    RegExp(Cat(<<Bol, Lit("v"), Plus(Digit), Lit("."), Plus(Digit), Lit("."),
                 Plus(Digit), Eol>>), 0, "")

GitHubActionMsg(action, version) ==
    WarnSign \o "GitHub Action " \o Quoted(action) \o
    " should use exact version (e.g., v1.2.3) instead of " \o Quoted(version) \o
    ". Use specific versions for reproducible workflows."

GitHubActionIssue(match) ==
    LET action == match.caps[1]
        version == match.caps[2]
    IN  IF version = "main" \/ version = "master" \/ ~Test(ExactVersionRe, version)
        THEN <<GitHubActionMsg(action, version)>>
        ELSE <<>>

validateGitHubActions(diff) ==
    Let(MatchAll(actionRegex, diff),
        LAMBDA matches : Flatten([j \in 1..Len(matches) |-> GitHubActionIssue(matches[j])]))

(***************************************************************************)
(* validateDatabaseMigration                                               *)
(***************************************************************************)
\* /DO\s*\$\$\s*BEGIN[\s\S]*END\s*\$\$/i
ProperWrapperRe ==
    RegExp(Cat(<<Lit("DO"), Star(WS), Lit("$$"), Star(WS), Lit("BEGIN"),
                 Star(AnyChar), Lit("END"), Star(WS), Lit("$$")>>), 0, "i")

\* /BEGIN([\s\S]*?)END/i
BlockContentRe ==
    RegExp(Cat(<<Lit("BEGIN"), Grp(1, LazyStar(AnyChar)), Lit("END")>>), 1, "i")

\* IF\s+NOT\s+EXISTS
IfNotExists == Cat(<<Lit("IF"), Plus(WS), Lit("NOT"), Plus(WS), Lit("EXISTS")>>)
\* IF\s+(?:NOT\s+)?EXISTS
IfMaybeNotExists ==
    Cat(<<Lit("IF"), Plus(WS), Opt(Cat(<<Lit("NOT"), Plus(WS)>>)), Lit("EXISTS")>>)
\* (?:WHERE|IF)\s+NOT\s+EXISTS
WhereOrIfNotExists ==
    Cat(<<Alt(<<Lit("WHERE"), Lit("IF")>>), Plus(WS), Lit("NOT"), Plus(WS),
          Lit("EXISTS")>>)
\* IF\s+EXISTS
IfExists == Cat(<<Lit("IF"), Plus(WS), Lit("EXISTS")>>)

\* /A\s+B\s+(?!.*?guard)(\w+)/i, the shape of the four risky patterns
RiskyRe(a, b, guard) ==
    RegExp(Cat(<<Lit(a), Plus(WS), Lit(b), Plus(WS),
                 Look(TRUE, Cat(<<LazyStar(Dot), guard>>)),
                 Grp(1, Plus(Word))>>), 1, "i")

CreateTableMsg ==
    WarnSign \o "Use " \o Quoted("CREATE TABLE IF NOT EXISTS") \o
    " for idempotent table creation"
AlterTableMsg ==
    WarnSign \o "Use " \o Quoted("ALTER TABLE IF EXISTS") \o
    " for idempotent table alterations"
InsertIntoMsg ==
    WarnSign \o "Consider adding " \o Quoted("WHERE NOT EXISTS") \o
    " check for idempotent data insertion"
DropTableMsg ==
    WarnSign \o "Use " \o Quoted("DROP TABLE IF EXISTS") \o
    " for idempotent table removal"
MissingWrapperMsg ==
    WarnSign \o "Migration should be wrapped in " \o
    Quoted("DO $$ BEGIN ... END $$") \o " block"

riskyPatterns ==
    << [pattern |-> RiskyRe("CREATE", "TABLE", IfNotExists),
        message |-> CreateTableMsg],
       [pattern |-> RiskyRe("ALTER", "TABLE", IfMaybeNotExists),
        message |-> AlterTableMsg],
       [pattern |-> RiskyRe("INSERT", "INTO", WhereOrIfNotExists),
        message |-> InsertIntoMsg],
       [pattern |-> RiskyRe("DROP", "TABLE", IfExists),
        message |-> DropTableMsg] >>

\* /IF\s+(?:NOT\s+)?EXISTS/i
IfCheckRe == RegExp(IfMaybeNotExists, 0, "i")

\* a wrapper test that asks for BEGIN ... END only
hasBeginEnd(cleanContent) == Test(BlockContentRe, cleanContent)

hasProperWrapper(cleanContent) == Test(ProperWrapperRe, cleanContent)

\* cleanContent.match(/BEGIN([\s\S]*?)END/i)?.[1] || ''
blockContent(cleanContent) ==
    Let(Exec(BlockContentRe, cleanContent, 0),
        LAMBDA m : IF m.ok THEN m.caps[1] ELSE "")

\* a guard test that knows IF NOT EXISTS only
hasIfNotExistsCheck(block) == Test(RegExp(IfNotExists, 0, "i"), block)

hasIfCheck(block) == Test(IfCheckRe, block)

\* a loop body that pushes the message once for every match of the pattern
RiskyIssuePerMatch(rule, block) ==
    IF hasIfCheck(block) THEN <<>>
    ELSE Let(MatchAll(rule.pattern, block),
             LAMBDA matches : [j \in 1..Len(matches) |-> rule.message])

\* the body of the loop over riskyPatterns
RiskyIssue(rule, block) ==
    IF Test(rule.pattern, block)
    THEN (IF ~hasIfCheck(block) THEN <<rule.message>> ELSE <<>>)
    ELSE <<>>

validateDatabaseMigration(content) ==
    Let(CleanContent(content),
        LAMBDA cleanContent :
          IF ~hasProperWrapper(cleanContent)
          THEN <<MissingWrapperMsg>>
          ELSE Let(blockContent(cleanContent),
                   LAMBDA block :
                     Flatten([j \in 1..Len(riskyPatterns) |->
                                RiskyIssue(riskyPatterns[j], block)])))

(***************************************************************************)
(* new RegExp(source): the pattern parser                                  *)
(*                                                                         *)
(* String.prototype.match(x) with a string x compiles x as a regular       *)
(* expression with no flags.  The parser covers the pattern syntax of a    *)
(* source without a backslash, a brace, or a "(?<" group: characters, the  *)
(* dot, classes, groups, (?: (?= (?!, alternation, ^ and $, and the        *)
(* quantifiers * + ? with their lazy forms.  A source that ECMAScript      *)
(* rejects (SyntaxError) parses to ok = FALSE.                             *)
(***************************************************************************)
\* the printable ASCII characters in code order, from U+0020; the form feed
\* stands at the place of U+0060
AsciiTable ==
    " !\"#$%&'()*+,-./0123456789:;<=>?@ABCDEFGHIJKLMNOPQRSTUVWXYZ[\\]^_\fabcdefghijklmnopqrstuvwxyz{|}~"

CharCode(c) == IndexOf(AsciiTable, c, 0)

SyntaxCharacters == {"^", "$", "\\", ".", "*", "+", "?", "(", ")", "[", "|"}
QuantifierChars == {"*", "+", "?"}

SyntaxError == [ok |-> FALSE, nodes |-> <<>>, node |-> Cat(<<>>), pos |-> 0, ng |-> 0]

\* Term :: Atom Quantifier?, the atom ending at offset pos
Quantified(s, atom, pos, ng) ==
    IF pos < Len(s) /\ Ch(s, pos + 1) \in QuantifierChars
    THEN LET q == Ch(s, pos + 1)
             lazy == pos + 1 < Len(s) /\ Ch(s, pos + 2) = "?"
         IN  [ok |-> TRUE,
              nodes |-> <<Rep(atom, IF q = "+" THEN 1 ELSE 0, 1, q # "?", ~lazy)>>,
              node |-> atom,
              pos |-> IF lazy THEN pos + 2 ELSE pos + 1, ng |-> ng]
    ELSE [ok |-> TRUE, nodes |-> <<atom>>, node |-> atom, pos |-> pos, ng |-> ng]

RECURSIVE ClassRanges(_, _)
\* the members of a class body from offset j on: ok, and the character set
ClassRanges(body, j) ==
    IF j >= Len(body) THEN [ok |-> TRUE, cs |-> {}]
    ELSE LET a == Ch(body, j + 1)
             isRange == j + 2 < Len(body) /\ Ch(body, j + 2) = "-"
             b == Ch(body, j + 3)
             more == ClassRanges(body, IF isRange THEN j + 3 ELSE j + 1)
         IN  IF isRange /\ CharCode(a) > CharCode(b)
             THEN [ok |-> FALSE, cs |-> {}]
             ELSE [ok |-> more.ok,
                   cs |-> more.cs \cup
                          (IF isRange
                           THEN {Ch(AsciiTable, n + 1) :
                                   n \in CharCode(a)..CharCode(b)}
                           ELSE {a})]

\* CharacterClass :: [ ClassRanges ] or [^ ClassRanges ], the [ at offset pos
CharacterClass(s, pos, ng) ==
    Let(IndexOf(s, "]", pos + 1),
        LAMBDA close :
          IF close < 0 THEN SyntaxError
          ELSE Let(Ch(s, pos + 2) = "^",
                   LAMBDA neg :
                     Let(ClassRanges(SubSeq(s, IF neg THEN pos + 3 ELSE pos + 2,
                                            close), 0),
                         LAMBDA members :
                           IF ~members.ok THEN SyntaxError
                           ELSE Quantified(s,
                                           IF neg THEN NotSet(members.cs)
                                           ELSE Set(members.cs),
                                           close + 1, ng))))

\* a run of pattern characters from offset pos; a quantifier after the run
\* binds to its last character only
PatternCharacters(s, pos, ng) ==
    Let(FirstIndex(pos + 1, Len(s) - 1,
                   LAMBDA j : Ch(s, j + 1) \in SyntaxCharacters),
        LAMBDA end :
          IF end < Len(s) /\ Ch(s, end + 1) \in QuantifierChars
          THEN [Quantified(s, Lit(Ch(s, end)), end, ng) EXCEPT
                  !.nodes = (IF end - pos > 1
                             THEN <<Lit(SubSeq(s, pos + 1, end - 1))>>
                             ELSE <<>>) \o @]
          ELSE [ok |-> TRUE, nodes |-> <<Lit(SubSeq(s, pos + 1, end))>>,
                node |-> Cat(<<>>), pos |-> end, ng |-> ng])

RECURSIVE ParseDisjunction(_, _, _)
RECURSIVE ParseAlternative(_, _, _, _)
RECURSIVE ParseTerm(_, _, _)

\* ( Disjunction ), (?: Disjunction ), (?= Disjunction ), (?! Disjunction ),
\* the ( at offset pos
ParseGroup(s, pos, ng) ==
    LET special == pos + 1 < Len(s) /\ Ch(s, pos + 2) = "?"
        kind == IF special THEN Ch(s, pos + 3) ELSE "("
    IN  IF special /\ ~(pos + 2 < Len(s) /\ kind \in {":", "=", "!"})
        THEN SyntaxError
        ELSE Let(ParseDisjunction(s, IF special THEN pos + 3 ELSE pos + 1,
                                  IF special THEN ng ELSE ng + 1),
                 LAMBDA d :
                   IF ~d.ok \/ d.pos >= Len(s) THEN SyntaxError
                   ELSE Quantified(s,
                                   CASE kind = "(" -> Grp(ng + 1, d.node)
                                     [] kind = ":" -> d.node
                                     [] kind = "=" -> Look(FALSE, d.node)
                                     [] kind = "!" -> Look(TRUE, d.node),
                                   d.pos + 1, d.ng))

ParseTerm(s, pos, ng) ==
    LET c == Ch(s, pos + 1)
    IN  CASE c \in QuantifierChars -> SyntaxError
          [] c \in {"^", "$"} ->
               IF pos + 1 < Len(s) /\ Ch(s, pos + 2) \in QuantifierChars
               THEN SyntaxError
               ELSE [ok |-> TRUE, nodes |-> <<IF c = "^" THEN Bol ELSE Eol>>,
                     node |-> Cat(<<>>), pos |-> pos + 1, ng |-> ng]
          [] c = "(" -> ParseGroup(s, pos, ng)
          [] c = "[" -> CharacterClass(s, pos, ng)
          [] c = "." -> Quantified(s, Dot, pos + 1, ng)
          [] OTHER -> PatternCharacters(s, pos, ng)

\* Alternative :: Term*, up to the end, a | or a )
ParseAlternative(s, pos, ng, items) ==
    IF pos >= Len(s) \/ Ch(s, pos + 1) \in {"|", ")"}
    THEN [ok |-> TRUE, nodes |-> <<>>, node |-> Cat(items), pos |-> pos, ng |-> ng]
    ELSE Let(ParseTerm(s, pos, ng),
             LAMBDA t :
               IF ~t.ok THEN SyntaxError
               ELSE ParseAlternative(s, t.pos, t.ng, items \o t.nodes))

\* Disjunction :: Alternative ( | Alternative )*
ParseDisjunction(s, pos, ng) ==
    Let(ParseAlternative(s, pos, ng, <<>>),
        LAMBDA a :
          IF ~a.ok THEN SyntaxError
          ELSE IF a.pos < Len(s) /\ Ch(s, a.pos + 1) = "|"
          THEN Let(ParseDisjunction(s, a.pos + 1, a.ng),
                   LAMBDA r :
                     IF ~r.ok THEN SyntaxError
                     ELSE [r EXCEPT !.node = Alt(<<a.node, r.node>>)])
          ELSE a)

\* new RegExp(source): ok = FALSE when the constructor throws SyntaxError
NewRegExp(source) ==
    Let(ParseDisjunction(source, 0, 0),
        LAMBDA d :
          IF d.ok /\ d.pos = Len(source)
          THEN [ok |-> TRUE, rx |-> RegExp(d.node, d.ng, "")]
          ELSE [ok |-> FALSE, rx |-> RegExp(Cat(<<>>), 0, "")])

(***************************************************************************)
(* The validator registries and analyzeCode                                *)
(***************************************************************************)
\* PACKAGE_VALIDATORS, in the order of Object.values
PACKAGE_VALIDATORS ==
    << [name |-> "node",
        extensions |-> <<"package.json">>,
        patterns |-> <<"package.json">>],
       [name |-> "python",
        extensions |-> <<".txt", ".pip">>,
        patterns |-> <<"requirements.txt", "requirements/*.txt",
                       "requirements/**.txt">>],
       [name |-> "ruby",
        extensions |-> <<".gemfile", ".gemspec">>,
        patterns |-> <<"Gemfile", "Gemfile.lock">>],
       [name |-> "java",
        extensions |-> <<".gradle", ".pom">>,
        patterns |-> <<"build.gradle", "pom.xml">>] >>

\* CONTAINER_VALIDATORS, in the order of Object.values
CONTAINER_VALIDATORS ==
    << [name |-> "docker",
        extensions |-> <<"Dockerfile">>,
        patterns |-> <<"Dockerfile", "**/Dockerfile", "docker/Dockerfile">>],
       [name |-> "kubernetes",
        extensions |-> <<".yaml", ".yml">>,
        patterns |-> <<"k8s/*.y{a,}ml", "kubernetes/*.y{a,}ml">>],
       [name |-> "compose",
        extensions |-> <<".yaml", ".yml">>,
        patterns |-> <<"docker-compose.y{a,}ml">>] >>

\* validator.validate(content)
Validate(validator, content) ==
    CASE validator.name = "node" -> validateNodePackage(content)
      [] validator.name = "python" -> validatePythonPackage(content)
      [] validator.name = "ruby" -> validateRubyPackage(content)
      [] validator.name = "java" -> validateJavaPackage(content)
      [] validator.name = "docker" -> validateDockerfile(content)
      [] validator.name = "kubernetes" -> validateKubernetesManifest(content)
      [] validator.name = "compose" -> validateDockerCompose(content)

\* validator.extensions.some(ext => file.to!.endsWith(ext))
ExtensionMatches(validator, to) ==
    \E j \in 1..Len(validator.extensions) : EndsWith(to, validator.extensions[j])

\* validator.patterns.some(pattern => pattern.match(file.to!)): the receiver
\* is the pattern and the argument, compiled by new RegExp, is the path.
\* "throw" when the path is no valid regular expression, "yes" when some
\* registered pattern string contains a match of it, else "no"
PatternMatches(validator, to) ==
    Let(NewRegExp(to),
        LAMBDA compiled :
          IF ~compiled.ok THEN "throw"
          ELSE IF \E j \in 1..Len(validator.patterns) :
                     Test(compiled.rx, validator.patterns[j])
          THEN "yes" ELSE "no")

\* the condition of the if in the two validator loops
Selected(validator, to) ==
    IF ExtensionMatches(validator, to) THEN "yes"
    ELSE PatternMatches(validator, to)

\* /\.(sql|migration)$/
MigrationSuffixRe ==
    RegExp(Cat(<<Lit("."), Grp(1, Alt(<<Lit("sql"), Lit("migration")>>)), Eol>>),
           1, "")

\* file.to.match(/\.(sql|migration)$/) || file.to.includes('migrations/')
IsMigration(to) == Test(MigrationSuffixRe, to) \/ Includes(to, "migrations/")

\* chunk.changes.filter(add or normal).map(content).join('\n')
ChunkContent(chunk) ==
    LET kept == SelectSeq(chunk.changes,
                          LAMBDA change : change.type = "add" \/ change.type = "normal")
    IN  Join([j \in 1..Len(kept) |-> kept[j].content], "\n")

\* file.chunks.map(...).join('\n')
DiffContent(file) ==
    Join([j \in 1..Len(file.chunks) |-> ChunkContent(file.chunks[j])], "\n")

\* the loop without the test of an absent destination
SkipsOnlyDeleted(file) == file.to = "/dev/null"

\* if (!file.to || file.to === "/dev/null") continue
Skipped(file) == file.to = "" \/ file.to = "/dev/null"

InvalidRegExpError(to) ==
    "SyntaxError: Invalid regular expression: /" \o to \o "/"

\* an outcome of the loop body: whether it threw, the warnings it pushed
\* to issues, and the validators whose validate it called
Nothing == [threw |-> FALSE, pushed |-> <<>>, ran |-> {}]
Throws == [threw |-> TRUE, pushed |-> <<>>, ran |-> {}]

RECURSIVE RunValidators(_, _, _)
\* the two for-of loops over the registries, one after the other: the
\* warnings pushed, or the throw of the first selection that throws
RunValidators(validators, to, content) ==
    IF Len(validators) = 0 THEN Nothing
    ELSE Let(Selected(Head(validators), to),
             LAMBDA sel :
               IF sel = "throw" THEN Throws
               ELSE IF sel = "no" THEN RunValidators(Tail(validators), to, content)
               ELSE [RunValidators(Tail(validators), to, content) EXCEPT
                       !.pushed = Validate(Head(validators), content) \o @,
                       !.ran = {Head(validators).name} \cup @])

\* the body of the loop over parsedDiff for one file: what it pushes to
\* issues, or the error it throws
AnalyzeFile(file) ==
    IF Skipped(file) THEN Nothing
    ELSE Let(DiffContent(file),
             LAMBDA diffContent :
               Let(RunValidators(PACKAGE_VALIDATORS \o CONTAINER_VALIDATORS,
                                 file.to, diffContent),
                   LAMBDA validated :
                     IF validated.threw THEN Throws
                     ELSE [validated EXCEPT
                             !.pushed = @ \o
                                (IF IsMigration(file.to)
                                 THEN validateDatabaseMigration(diffContent)
                                 ELSE <<>>)]))

(***************************************************************************)
(* The changed files the model draws pull requests from                    *)
(***************************************************************************)
Add(content) == [type |-> "add", content |-> "+" \o content]
Del(content) == [type |-> "del", content |-> "-" \o content]
Normal(content) == [type |-> "normal", content |-> " " \o content]
File(to, changes) == [to |-> to, chunks |-> <<[changes |-> changes]>>]

NodeManifest ==
    File("package.json",
         <<Del("\"express\": \"4.18.0\","), Add("\"express\": \"^4.18.0\","),
           Normal("\"lodash\": \"4.17.21\"")>>)
PythonRequirements == File("requirements.txt", <<Add("flask>=2.0")>>)
RubyGemfile == File("Gemfile", <<Add("gem 'rails', '~> 7.0'")>>)
GradleBuild == File("build.gradle", <<Add("implementation 'org.x:lib:1.+'")>>)
DockerfileChange ==
    File("Dockerfile", <<Del("FROM node:20.5.0"), Add("FROM node:latest")>>)
KubernetesManifest == File("k8s/deploy.yaml", <<Add("  image: nginx")>>)
MigrationChange ==
    File("db/migrations/001_init.sql", <<Add("CREATE TABLE orders (id int);")>>)
WorkflowChange ==
    File(".github/workflows/ci.yml", <<Add("  - uses: actions/checkout@main")>>)
DeletedFile == File("/dev/null", <<Del("FROM node:latest")>>)
NoDestination == File("", <<Add("FROM node")>>)
CppSource == File("src/c++/main.txt", <<Add("flask")>>)
BuildScript == File("build", <<Add("echo org.x:lib:latest")>>)
RouteGroupPage == File("app/(web)/page.tsx", <<Add("image: nginx")>>)

ChangedFiles ==
    {NodeManifest, PythonRequirements, RubyGemfile, GradleBuild, DockerfileChange,
     KubernetesManifest, MigrationChange, WorkflowChange, DeletedFile,
     NoDestination, CppSource, BuildScript, RouteGroupPage}

\* the most files a pull request of the model changes
MaxFiles == 2

RECURSIVE SeqsUpTo(_, _)
\* the sequences over S of length at most n
SeqsUpTo(S, n) ==
    IF n = 0 THEN {<<>>}
    ELSE LET shorter == SeqsUpTo(S, n - 1)
         IN  shorter \cup {Append(q, x) : q \in shorter, x \in S}

\* the body of the analyzeCode loop, by changed file
Analysis == [file \in ChangedFiles |-> AnalyzeFile(file)]

(***************************************************************************)
(* run()                                                                   *)
(***************************************************************************)
NoError == [in |-> "", error |-> ""]

IssuesFoundMsg ==
    "Version pinning and migration validation failed. See PR comments for details."

\* the body of the comment: the heading, the issues joined by blank lines,
\* then the fixed recommendations
CommentBody(list) ==
    "## Version Pinning and Migration Validation\n\n" \o Join(list, "\n\n") \o
    "\n\n### Recommendations:\n"

Comment(list) == [kind |-> "comment", text |-> CommentBody(list)]
SetFailed(message) == [kind |-> "setFailed", text |-> message]

\* a catch clause that logs the error and marks nothing
CatchAndLogOnly(in, error) ==
    /\ thrown' = [in |-> in, error |-> error]
    /\ events' = events
    /\ pc' = "returned"

\* the catch clause of run(): core.setFailed("Action failed: " + error)
Catch(in, error) ==
    /\ thrown' = [in |-> in, error |-> error]
    /\ events' = Append(events, SetFailed("Action failed: " \o error))
    /\ pc' = "returned"

\* what reading and parsing the event file can throw
PRDetailsErrors ==
    {"Error: ENOENT: no such file or directory, open ''",
     "SyntaxError: Unexpected end of JSON input",
     "TypeError: Cannot read properties of undefined (reading 'owner')"}
\* what the pulls.get request can throw
GetDiffErrors == {"HttpError: Not Found", "HttpError: Bad credentials"}
\* what parseDiff throws when the answer is no string
ParseDiffErrors == {"TypeError: input.split is not a function"}
\* what the issues.createComment request can throw
CreateCommentErrors == {"HttpError: Resource not accessible by integration"}

Init ==
    /\ pc = "getPRDetails"
    /\ \E files \in SeqsUpTo(ChangedFiles, MaxFiles) :
         \E empty \in {b \in BOOLEAN : b => files = <<>>} :
            prDiff = [empty |-> empty, files |-> files]
    /\ parsedDiff = <<>>
    /\ fileIdx = 0
    /\ issues = <<>>
    /\ ran = {}
    /\ events = <<>>
    /\ thrown = NoError
    /\ blob = <<>>
    /\ result = <<>>

\* const prDetails = await getPRDetails()
GetPRDetails ==
    /\ pc = "getPRDetails"
    /\ \/ /\ pc' = "getDiff"
          /\ UNCHANGED <<events, thrown>>
       \/ \E error \in PRDetailsErrors : Catch("getPRDetails", error)
    /\ UNCHANGED <<prDiff, parsedDiff, fileIdx, issues, ran, blob, result>>

\* const diff = await getDiff(...); if (!diff) return
GetDiff ==
    /\ pc = "getDiff"
    /\ \/ /\ pc' = IF prDiff.empty THEN "returned" ELSE "parseDiff"
          /\ UNCHANGED <<events, thrown>>
       \/ \E error \in GetDiffErrors : Catch("getDiff", error)
    /\ UNCHANGED <<prDiff, parsedDiff, fileIdx, issues, ran, blob, result>>

\* const parsedDiff = parseDiff(diff), and the entry of analyzeCode
ParseDiff ==
    /\ pc = "parseDiff"
    /\ \/ /\ parsedDiff' = prDiff.files
          /\ fileIdx' = 1
          /\ pc' = "analyzeCode"
          /\ UNCHANGED <<events, thrown>>
       \/ /\ \E error \in ParseDiffErrors : Catch("parseDiff", error)
          /\ UNCHANGED <<parsedDiff, fileIdx>>
    /\ UNCHANGED <<prDiff, issues, ran, blob, result>>

\* one round of for (const file of parsedDiff)
AnalyzeNextFile ==
    /\ pc = "analyzeCode"
    /\ fileIdx <= Len(parsedDiff)
    /\ \E out \in {Analysis[parsedDiff[fileIdx]]} :
           IF out.threw
           THEN /\ Catch("analyzeCode", InvalidRegExpError(parsedDiff[fileIdx].to))
                /\ UNCHANGED <<fileIdx, issues, ran>>
           ELSE /\ issues' = issues \o out.pushed
                /\ ran' = ran \cup {<<fileIdx, name>> : name \in out.ran}
                /\ fileIdx' = fileIdx + 1
                /\ UNCHANGED <<pc, events, thrown>>
    /\ UNCHANGED <<prDiff, parsedDiff, blob, result>>

\* return issues
AnalyzeReturn ==
    /\ pc = "analyzeCode"
    /\ fileIdx > Len(parsedDiff)
    /\ pc' = "createComment"
    /\ UNCHANGED <<prDiff, parsedDiff, fileIdx, issues, ran, events, thrown,
                   blob, result>>

\* a createComment that marks the run failed before it posts the comment
CreateCommentMarksFirst ==
    /\ pc = "createComment"
    /\ IF Len(issues) > 0
       THEN \/ /\ events' = events \o <<SetFailed(IssuesFoundMsg), Comment(issues)>>
               /\ pc' = "returned"
               /\ UNCHANGED thrown
            \/ \E error \in CreateCommentErrors :
                 /\ thrown' = [in |-> "createComment", error |-> error]
                 /\ events' = events \o <<SetFailed(IssuesFoundMsg),
                                          SetFailed("Action failed: " \o error)>>
                 /\ pc' = "returned"
       ELSE /\ pc' = "returned"
            /\ UNCHANGED <<events, thrown>>
    /\ UNCHANGED <<prDiff, parsedDiff, fileIdx, issues, ran, blob, result>>

\* await createComment(...): with issues, post the comment and then mark the
\* run failed; the request may fail before or after the comment is stored
CreateComment ==
    /\ pc = "createComment"
    /\ IF Len(issues) > 0
       THEN \/ /\ events' = events \o <<Comment(issues), SetFailed(IssuesFoundMsg)>>
               /\ pc' = "returned"
               /\ UNCHANGED thrown
            \/ \E error \in CreateCommentErrors : Catch("createComment", error)
            \/ \E error \in CreateCommentErrors :
                 /\ thrown' = [in |-> "createComment", error |-> error]
                 /\ events' = events \o <<Comment(issues),
                                          SetFailed("Action failed: " \o error)>>
                 /\ pc' = "returned"
       ELSE /\ pc' = "returned"
            /\ UNCHANGED <<events, thrown>>
    /\ UNCHANGED <<prDiff, parsedDiff, fileIdx, issues, ran, blob, result>>

Next ==
    \/ GetPRDetails
    \/ GetDiff
    \/ ParseDiff
    \/ AnalyzeNextFile
    \/ AnalyzeReturn
    \/ CreateComment

Spec == Init /\ [][Next]_vars

(***************************************************************************)
(* The claims about run() and analyzeCode                                  *)
(***************************************************************************)
Range(seq) == {seq[j] : j \in 1..Len(seq)}

\* the positions in the history of the comments posted, and of the marks
Comments == {j \in 1..Len(events) : events[j].kind = "comment"}
Failures == {j \in 1..Len(events) : events[j].kind = "setFailed"}

\* the calls of run() before createComment
BeforeReport == {"getPRDetails", "getDiff", "parseDiff", "analyzeCode"}

\* the diff was retrieved and analyzeCode returned its list
AnalysisCompleted ==
    /\ pc \in {"createComment", "returned"}
    /\ fileIdx = Len(parsedDiff) + 1
    /\ thrown.in \notin BeforeReport

\* C1: in a run where the diff is retrieved and analyzeCode completes, at
\* most one comment is posted and it precedes every failure mark; when the
\* run has ended, a non-empty issue list has left it marked failed with a
\* message (also when posting the comment failed), and an empty issue list
\* has left neither a comment nor a failure mark.
C1_ReportThenFail ==
    AnalysisCompleted =>
        /\ Cardinality(Comments) <= 1
        /\ \A c \in Comments : \A f \in Failures : c < f
        /\ \A c \in Comments : events[c].text = CommentBody(issues)
        /\ Len(issues) = 0 => events = <<>>
        /\ (pc = "returned" /\ Len(issues) > 0) =>
              /\ Failures # {}
              /\ \A f \in Failures : events[f].text # ""
              /\ thrown = NoError =>
                    events = <<Comment(issues), SetFailed(IssuesFoundMsg)>>

\* a run that found issues, posted its comment and was then marked failed
C1_Witness ==
    /\ pc = "returned"
    /\ AnalysisCompleted
    /\ Len(issues) > 0
    /\ Len(events) = 2
    /\ events[1].kind = "comment"
    /\ events[2] = SetFailed(IssuesFoundMsg)

\* C2: when reading the event, retrieving the diff, parsing it or analysing
\* it raised an error, run() has returned, no comment was posted, and the
\* run is marked failed once, with a message that carries the error.
C2_ErrorNoReport ==
    thrown.in \in BeforeReport =>
        /\ pc = "returned"
        /\ Comments = {}
        /\ events = <<SetFailed("Action failed: " \o thrown.error)>>

\* analysis threw on the second file after the first had produced issues
C2_Witness ==
    /\ thrown.in = "analyzeCode"
    /\ fileIdx = 2
    /\ Len(issues) > 0
    /\ pc = "returned"

\* the fixed order of the validators
FixedOrder == <<"node", "python", "ruby", "java", "docker", "kubernetes", "compose">>

ValidatorNamed(name) ==
    CHOOSE v \in Range(PACKAGE_VALIDATORS \o CONTAINER_VALIDATORS) : v.name = name

\* the warnings analyzeCode owes for one changed file
ExpectedOf(file) ==
    IF file.to = "" \/ file.to = "/dev/null" THEN <<>>
    ELSE Flatten([j \in 1..Len(FixedOrder) |->
                    IF Selected(ValidatorNamed(FixedOrder[j]), file.to) = "yes"
                    THEN Validate(ValidatorNamed(FixedOrder[j]), DiffContent(file))
                    ELSE <<>>])
         \o (IF \/ EndsWith(file.to, ".sql")
                \/ EndsWith(file.to, ".migration")
                \/ Includes(file.to, "migrations/")
             THEN validateDatabaseMigration(DiffContent(file))
             ELSE <<>>)

Expected == [file \in ChangedFiles |-> ExpectedOf(file)]

\* C8: the list analyzeCode builds is, at every round of its loop and when
\* it returns, the concatenation over the files analysed so far, in diff
\* order, of nothing for a file with no destination or the /dev/null
\* destination, and else of the warnings of the selected validators in the
\* fixed order followed by the migration checker's for a migration path.
C8_ConcatenationInOrder ==
    (pc \in {"analyzeCode", "createComment"}) =>
        issues = Flatten([j \in 1..(fileIdx - 1) |-> Expected[parsedDiff[j]]])

\* analyzeCode returned for a deleted file and a file two validators warn on
C8_Witness ==
    /\ pc = "createComment"
    /\ Len(parsedDiff) = 2
    /\ parsedDiff[1].to = "/dev/null"
    /\ parsedDiff[2].to = "k8s/deploy.yaml"
    /\ Len(issues) = 2
    /\ issues[1] # issues[2]

\* the lines a file's diff adds, without their + marker
AddedLines(file) ==
    LET changes == Flatten([j \in 1..Len(file.chunks) |-> file.chunks[j].changes])
        added == SelectSeq(changes, LAMBDA change : change.type = "add")
    IN  Join([j \in 1..Len(added) |-> Tail(added[j].content)], "\n")

IsWorkflowFile(to) ==
    /\ StartsWith(to, ".github/workflows/")
    /\ EndsWith(to, ".yml") \/ EndsWith(to, ".yaml")

GitHubActionWarnings == [file \in ChangedFiles |-> validateGitHubActions(AddedLines(file))]

\* C3: when analyzeCode has returned, its list holds, for every changed
\* workflow file that is not deleted, the GitHub Action warning of every
\* added "uses: action@ref" whose ref is main, master or no vMAJOR.MINOR.PATCH.
C3_WorkflowPinningReported ==
    pc = "createComment" =>
        \A j \in 1..Len(parsedDiff) :
            IsWorkflowFile(parsedDiff[j].to) =>
                Range(GitHubActionWarnings[parsedDiff[j]]) \subseteq Range(issues)

RECURSIVE GlobNodes(_)
\* a glob-style name pattern as a sequence of matcher nodes: **/ is any
\* number of directories, ** any characters, * any characters but /, and
\* {a,b} one of the alternatives
GlobNodes(p) ==
    IF p = "" THEN <<>>
    ELSE IF StartsWith(p, "**/")
    THEN <<Opt(Cat(<<Star(AnyChar), Lit("/")>>))>> \o GlobNodes(SubSeq(p, 4, Len(p)))
    ELSE IF StartsWith(p, "**")
    THEN <<Star(AnyChar)>> \o GlobNodes(SubSeq(p, 3, Len(p)))
    ELSE IF StartsWith(p, "*")
    THEN <<Star(NotSet({"/"}))>> \o GlobNodes(SubSeq(p, 2, Len(p)))
    ELSE IF StartsWith(p, "{")
    THEN LET close == IndexOf(p, "}", 0)
             alts == Split(SubSeq(p, 2, close), ",")
         IN  <<Alt([j \in 1..Len(alts) |-> Lit(alts[j])])>>
             \o GlobNodes(SubSeq(p, close + 2, Len(p)))
    ELSE <<Lit(SubSeq(p, 1, 1))>> \o GlobNodes(SubSeq(p, 2, Len(p)))

\* the whole path matches the glob-style pattern
GlobMatches(pattern, path) ==
    MatchAt(RegExp(Cat(GlobNodes(pattern) \o <<Eol>>), 0, ""), path, 0).ok

\* the selection rule: a suffix of the path is one of the validator's
\* extensions, or the path matches one of its glob-style name patterns
SuffixOrGlob(validator, to) ==
    \/ \E j \in 1..Len(validator.extensions) : EndsWith(to, validator.extensions[j])
    \/ \E j \in 1..Len(validator.patterns) : GlobMatches(validator.patterns[j], to)

Applies == [file \in ChangedFiles |->
              {v.name : v \in {w \in Range(PACKAGE_VALIDATORS \o CONTAINER_VALIDATORS) :
                                  SuffixOrGlob(w, file.to)}}]

\* C9: a validator has run on an analysed file exactly when the file's
\* path ends with one of its extensions or matches one of its glob-style
\* name patterns.
C9_SelectedIffSuffixOrGlob ==
    \A j \in 1..(fileIdx - 1) :
        (parsedDiff[j].to # "" /\ parsedDiff[j].to # "/dev/null") =>
            \A name \in Range(FixedOrder) :
                <<j, name>> \in ran <=> name \in Applies[parsedDiff[j]]

\* C10: no path of a changed file makes the selection of validators raise
\* an error that aborts analyzeCode.
C10_SelectionNeverThrows == thrown.in # "analyzeCode"

(***************************************************************************)
(* validateDockerfile on Dockerfile blobs                                  *)
(***************************************************************************)
\* a line of a Dockerfile blob: FROM ref[:tag] [AS alias], or a RUN line,
\* with or without the + marker of the diff
DockerLines ==
    [plus : BOOLEAN, kind : {"FROM"}, ref : {"node", "localhost:5000/app"},
     tag : {"", "20.5.0"}, alias : {"", "build"}]
    \cup [plus : BOOLEAN, kind : {"RUN"}, ref : {""}, tag : {""}, alias : {""}]

LineText(l) ==
    (IF l.plus THEN "+" ELSE "") \o
    (IF l.kind = "FROM"
     THEN "FROM " \o l.ref \o (IF l.tag = "" THEN "" ELSE ":" \o l.tag) \o
          (IF l.alias = "" THEN "" ELSE " AS " \o l.alias)
     ELSE "RUN make")

DockerContent(lines) == Join([j \in 1..Len(lines) |-> LineText(lines[j])], "\n")

\* the most lines a Dockerfile blob of the model has
MaxDockerLines == 2

InitDocker ==
    /\ pc = "call"
    /\ blob \in SeqsUpTo(DockerLines, MaxDockerLines)
    /\ result = <<>>
    /\ prDiff = [empty |-> TRUE, files |-> <<>>]
    /\ parsedDiff = <<>>
    /\ fileIdx = 0
    /\ issues = <<>>
    /\ ran = {}
    /\ events = <<>>
    /\ thrown = NoError

\* issues.push(...validator.validate(diffContent)) for the docker validator
DockerfileValidated ==
    /\ pc = "call"
    /\ result' = validateDockerfile(DockerContent(blob))
    /\ pc' = "return"
    /\ UNCHANGED <<prDiff, parsedDiff, fileIdx, issues, ran, events, thrown, blob>>

NextDocker == DockerfileValidated

SpecDocker == InitDocker /\ [][NextDocker]_vars

\* how often x occurs in seq
Count(seq, x) == Cardinality({j \in 1..Len(seq) : seq[j] = x})

\* C4: validateDockerfile returns, for every image reference, as many
\* "no version tag" warnings naming it as the blob has FROM lines with
\* that reference and no tag: exactly one for each such line.
C4_OneWarningPerUntaggedFrom ==
    pc = "return" =>
        \A ref \in {"node", "localhost:5000/app"} :
            Count(result, DockerNoTagMsg(ref)) =
                Cardinality({j \in 1..Len(blob) :
                               /\ blob[j].kind = "FROM"
                               /\ blob[j].ref = ref
                               /\ blob[j].tag = ""})

(***************************************************************************)
(* validateDatabaseMigration on migration blobs                            *)
(***************************************************************************)
\* the statements of the model's migrations, in upper case and written
\* with single spaces
Statements ==
    {"CREATE TABLE ORDERS (ID INT);",
     "CREATE TABLE ENDPOINTS (ID INT);",
     "CREATE TABLE IF NOT EXISTS T (ID INT);",
     "ALTER TABLE USERS ADD EMAIL TEXT;",
     "INSERT INTO USERS VALUES (1);",
     "DROP TABLE OLD;",
     "DROP TABLE IF EXISTS OLD;"}

\* none: the statements alone; bare: BEGIN; ... END; with no DO $$;
\* upper: the DO $$ BEGIN ... END $$ block; lower: the same, all of the
\* blob in lower case
Wrappers == {"none", "bare", "upper", "lower"}

\* the most statements a migration blob of the model has
MaxStmts == 2

Migrations ==
    [plus : BOOLEAN, wrapper : Wrappers, stmts : SeqsUpTo(Statements, MaxStmts)]

RECURSIVE LowerCase(_)
LowerCase(s) ==
    IF s = "" THEN ""
    ELSE (IF Ch(s, 1) \in UpperSet THEN ToLower[Ch(s, 1)] ELSE Ch(s, 1))
         \o LowerCase(SubSeq(s, 2, Len(s)))

\* the lines of a migration in upper case, without diff markers
UpperLines(m) ==
    CASE m.wrapper = "none" -> m.stmts
      [] m.wrapper = "bare" -> <<"BEGIN;">> \o m.stmts \o <<"END;">>
      [] OTHER -> <<"DO $$", "BEGIN">> \o m.stmts \o <<"END $$;">>

\* the lines of a migration, without diff markers
MigrationLines(m) ==
    IF m.wrapper = "lower"
    THEN [j \in 1..Len(UpperLines(m)) |-> LowerCase(UpperLines(m)[j])]
    ELSE UpperLines(m)

\* the blob handed to the validator: every line with the + marker, or none
MigrationContent(m) ==
    Join([j \in 1..Len(MigrationLines(m)) |->
            (IF m.plus THEN "+" ELSE "") \o MigrationLines(m)[j]], "\n")

InitMigration ==
    /\ pc = "call"
    /\ blob \in Migrations
    /\ result = <<>>
    /\ prDiff = [empty |-> TRUE, files |-> <<>>]
    /\ parsedDiff = <<>>
    /\ fileIdx = 0
    /\ issues = <<>>
    /\ ran = {}
    /\ events = <<>>
    /\ thrown = NoError

\* issues.push(...validateDatabaseMigration(diffContent))
MigrationValidated ==
    /\ pc = "call"
    /\ result' = validateDatabaseMigration(MigrationContent(blob))
    /\ pc' = "return"
    /\ UNCHANGED <<prDiff, parsedDiff, fileIdx, issues, ran, events, thrown, blob>>

NextMigration == MigrationValidated

SpecMigration == InitMigration /\ [][NextMigration]_vars

\* the blob without its + markers, in upper case
UpperText(m) == Join(UpperLines(m), "\n")

\* the blob holds a DO $$ BEGIN ... END $$ block
WrapperPresent(m) == m.wrapper \in {"upper", "lower"}

\* the text between the first BEGIN and the first END after it, in upper case
InnerBlock(m) ==
    LET text == UpperText(m)
        begin == IndexOf(text, "BEGIN", 0)
        end == IndexOf(text, "END", begin + 5)
    IN  SubSeq(text, begin + 6, end)

\* an IF EXISTS or IF NOT EXISTS token, in any case
HasGuard(text) == Includes(text, "IF EXISTS") \/ Includes(text, "IF NOT EXISTS")

\* CREATE TABLE followed by a name
HasCreateTable(text) ==
    \E j \in 0..(Len(text) - 14) :
        /\ SubSeq(text, j + 1, j + 13) = "CREATE TABLE "
        /\ Ch(text, j + 14) \in WordSet

StructuralMsgs == {CreateTableMsg, AlterTableMsg, InsertIntoMsg, DropTableMsg}

\* C5 as it stands: a blob with the wrapper, a CREATE TABLE name statement
\* inside it and no IF NOT EXISTS anywhere gets exactly one CREATE TABLE
\* warning.
C5_CreateTableWarnedOnce ==
    (/\ pc = "return"
     /\ WrapperPresent(blob)
     /\ \E j \in 1..Len(blob.stmts) : StartsWith(blob.stmts[j], "CREATE TABLE ")
     /\ ~Includes(UpperText(blob), "IF NOT EXISTS"))
    => Count(result, CreateTableMsg) = 1

\* C5, amended: a blob with the wrapper, whose inner block (the text
\* between the first BEGIN and the first END after it) holds CREATE TABLE
\* and a name and holds neither an IF EXISTS nor an IF NOT EXISTS token,
\* gets exactly one CREATE TABLE warning.
C5_CreateTableInUnguardedBlock ==
    (/\ pc = "return"
     /\ WrapperPresent(blob)
     /\ HasCreateTable(InnerBlock(blob))
     /\ ~HasGuard(InnerBlock(blob)))
    => Count(result, CreateTableMsg) = 1

\* two CREATE TABLE statements in an unguarded block, warned of once
C5_Witness ==
    /\ pc = "return"
    /\ blob.wrapper = "lower"
    /\ blob.plus
    /\ blob.stmts = <<"CREATE TABLE ORDERS (ID INT);", "CREATE TABLE ORDERS (ID INT);">>
    /\ result = <<CreateTableMsg>>

\* C6: with the wrapper present and an IF EXISTS or IF NOT EXISTS token
\* anywhere in the inner block, none of the four structural warnings is
\* returned.
C6_GuardSuppressesBlock ==
    (/\ pc = "return"
     /\ WrapperPresent(blob)
     /\ HasGuard(InnerBlock(blob)))
    => Range(result) \cap StructuralMsgs = {}

\* a guarded DROP TABLE silences the warning of an unguarded CREATE TABLE
C6_Witness ==
    /\ pc = "return"
    /\ blob.wrapper = "upper"
    /\ blob.stmts = <<"DROP TABLE IF EXISTS OLD;", "CREATE TABLE ORDERS (ID INT);">>
    /\ result = <<>>

\* C7: a blob with no DO $$ BEGIN ... END $$ block gets the missing-wrapper
\* warning and nothing else.
C7_MissingWrapperOnly ==
    (pc = "return" /\ ~WrapperPresent(blob)) => result = <<MissingWrapperMsg>>

\* statements of two rules between a bare BEGIN; and END;, with + markers
C7_Witness ==
    /\ pc = "return"
    /\ blob.wrapper = "bare"
    /\ blob.plus
    /\ blob.stmts = <<"CREATE TABLE ORDERS (ID INT);", "DROP TABLE OLD;">>
    /\ result = <<MissingWrapperMsg>>

====
